---- MODULE Spec2Model ----
(***************************************************************************)
(* The dynamic tool registry of src/src/core/tool_registry.py              *)
(* (class ToolRegistry): the parsed domain map, the dependency resolver,   *)
(* the domain loader and the facade operations.                            *)
(*                                                                         *)
(* A domain map is a sequence of descriptors in the key order of the       *)
(* configuration mapping (a Python dict iterates in insertion order).      *)
(* A Python dict of tools is a sequence of [name, func] entries without a  *)
(* repeated name, in insertion order.  A callable is identified by the     *)
(* module that exports it and the key it is exported under.                *)
(***************************************************************************)
EXTENDS Integers, Sequences, FiniteSets, TLC

VARIABLES
    config_path,       \* what self.config_path names when __init__ runs
    domains,           \* self.domains: the descriptors, in key order
    modules,           \* what "<module>.tools" of each domain exports
    loaded,            \* self._loaded
    tools,             \* self._tools
    tool_definitions,  \* self._tool_definitions
    imported,          \* the importlib.import_module calls made so far
    load_runs,         \* how often the loading loop of load_domains has run
    last,              \* the last facade call: [op, arg, raised, domain, ran, value]
    threads            \* where each concurrent caller of load_domains stands

vars == <<config_path, domains, modules, loaded, tools, tool_definitions,
          imported, load_runs, last, threads>>

----------------------------------------------------------------------------
(* Bounds of the model.                                                    *)

\* most depends_on entries, over all descriptors, of a resolver domain map
MaxEdges == 3
\* most depends_on entries, over all descriptors, of a facade domain map
MaxFacadeEdges == 1
\* longest tools allow-list, TOOLS mapping and TOOL_DEFINITIONS list
MaxExports == 2
\* most runs of the loading loop on one registry instance
MaxLoadRuns == 2
\* longest list a caller makes of a returned definitions list
MaxHeld == 2

Threads == {"t1", "t2"}
ResolverNames == {"a", "b", "c"}
FacadeNames == {"a", "b"}
UnknownDomain == "zz"
ToolNames == {"x", "y"}
UnknownTool == "nonexistent_tool"
DefKeys == {"name", "description", "parameters"}

----------------------------------------------------------------------------
(* Sequences and dicts.                                                    *)

SeqToSet(s) == {s[i] : i \in DOMAIN s}

SeqsUpTo(S, n) == UNION {[1..k -> S] : k \in 0..n}

NoRepeat(s) == \A i, j \in DOMAIN s : i # j => s[i] # s[j]

Perms(S) == {s \in [1..Cardinality(S) -> S] : NoRepeat(s)}

Names(seq) == [i \in DOMAIN seq |-> seq[i].name]

\* d[key] = value on a dict that keeps insertion order
DictSet(d, key, value) ==
    IF \E i \in DOMAIN d : d[i].name = key
    THEN [i \in DOMAIN d |->
            IF d[i].name = key THEN [name |-> key, func |-> value] ELSE d[i]]
    ELSE Append(d, [name |-> key, func |-> value])

DictKeys(d) == {d[i].name : i \in DOMAIN d}

DictGet(d, key) == (CHOOSE e \in SeqToSet(d) : e.name = key).func

----------------------------------------------------------------------------
(* The domain map.                                                         *)

DomainKeys == {domains[i].name : i \in DOMAIN domains}

\* self.domains[domain_name]
DomainConfig(domain_name) ==
    CHOOSE c \in SeqToSet(domains) : c.name = domain_name

----------------------------------------------------------------------------
(* _resolve_dependencies: depth-first, with the resolved and visiting sets *)
(* shared by reference between all the calls of one get_enabled_domains.   *)
(* A result is [raised, order, resolved, visiting, entered]: the exception *)
(* or "none", the returned list, the two sets as the call leaves them, and *)
(* the domains that passed the guards of lines 96-107, in order.           *)

Returned(order, resolved, visiting, entered) ==
    [raised |-> "none", order |-> order, resolved |-> resolved,
     visiting |-> visiting, entered |-> entered]

Raised(error, resolved, visiting, entered) ==
    [raised |-> error, order |-> <<>>, resolved |-> resolved,
     visiting |-> visiting, entered |-> entered]

\* Extend that puts the list of the call in front of the caller's list
ExtendInFront(acc, r) ==
    IF r.raised # "none"
    THEN Raised(r.raised, r.resolved, r.visiting, acc.entered \o r.entered)
    ELSE Returned(r.order \o acc.order, r.resolved, r.visiting,
                  acc.entered \o r.entered)

\* order.extend(<the list r of a call>) on the caller's state acc; an
\* exception of the call leaves the caller too
Extend(acc, r) ==
    IF r.raised # "none"
    THEN Raised(r.raised, r.resolved, r.visiting, acc.entered \o r.entered)
    ELSE Returned(acc.order \o r.order, r.resolved, r.visiting,
                  acc.entered \o r.entered)

\* Leave that puts the domain before its dependencies
LeaveFirst(domain_name, r) ==
    IF r.raised # "none" THEN r
    ELSE Returned(<<domain_name>> \o r.order, r.resolved \cup {domain_name},
                  r.visiting \ {domain_name}, r.entered)

\* Leave that does not append the domain
LeaveUnlisted(domain_name, r) ==
    IF r.raised # "none" THEN r
    ELSE Returned(r.order, r.resolved \cup {domain_name},
                  r.visiting \ {domain_name}, r.entered)

\* Leave that appends the domain without adding it to resolved
LeaveUnresolved(domain_name, r) ==
    IF r.raised # "none" THEN r
    ELSE Returned(Append(r.order, domain_name), r.resolved,
                  r.visiting \ {domain_name}, r.entered)

\* lines 120-124 after the loop over depends_on has ended as r
Leave(domain_name, r) ==
    IF r.raised # "none" THEN r
    ELSE Returned(Append(r.order, domain_name), r.resolved \cup {domain_name},
                  r.visiting \ {domain_name}, r.entered)

RECURSIVE resolve_dependencies(_, _, _)
RECURSIVE resolve_depends_on(_, _, _)

\* resolve_depends_on without the test of lines 114-117
resolve_depends_on_unchecked(deps, i, acc) ==
    IF i > Len(deps) \/ acc.raised # "none" THEN acc
    ELSE resolve_depends_on(deps, i + 1,
             Extend(acc, resolve_dependencies(deps[i], acc.resolved, acc.visiting)))

\* resolve_depends_on that skips a name that is no key of the map
resolve_depends_on_skipping(deps, i, acc) ==
    IF i > Len(deps) \/ acc.raised # "none" THEN acc
    ELSE IF deps[i] \notin DomainKeys
    THEN resolve_depends_on(deps, i + 1, acc)
    ELSE resolve_depends_on(deps, i + 1,
             Extend(acc, resolve_dependencies(deps[i], acc.resolved, acc.visiting)))

\* the loop of lines 113-118 from entry i of deps on; acc is the state so far
resolve_depends_on(deps, i, acc) ==
    IF i > Len(deps) \/ acc.raised # "none" THEN acc
    ELSE IF deps[i] \notin DomainKeys
    THEN Raised("DependencyError", acc.resolved, acc.visiting, acc.entered)
    ELSE resolve_depends_on(deps, i + 1,
             Extend(acc, resolve_dependencies(deps[i], acc.resolved, acc.visiting)))

\* resolve_dependencies that takes a domain it is visiting for a resolved one
resolve_dependencies_revisiting(domain_name, resolved, visiting) ==
    IF domain_name \in resolved \/ domain_name \in visiting
    THEN Returned(<<>>, resolved, visiting, <<>>)
    ELSE IF domain_name \notin DomainKeys
    THEN Raised("DomainNotFoundError", resolved, visiting, <<>>)
    ELSE IF ~DomainConfig(domain_name).enabled
    THEN Returned(<<>>, resolved, visiting, <<>>)
    ELSE Leave(domain_name,
               resolve_depends_on(DomainConfig(domain_name).depends_on, 1,
                   Returned(<<>>, resolved, visiting \cup {domain_name},
                            <<domain_name>>)))

\* resolve_dependencies that looks for unknown names in depends_on before
\* the enabled test of lines 105-107
resolve_dependencies_checking_disabled(domain_name, resolved, visiting) ==
    IF domain_name \in resolved
    THEN Returned(<<>>, resolved, visiting, <<>>)
    ELSE IF domain_name \in visiting
    THEN Raised("DependencyError", resolved, visiting, <<>>)
    ELSE IF domain_name \notin DomainKeys
    THEN Raised("DomainNotFoundError", resolved, visiting, <<>>)
    ELSE IF ~(SeqToSet(DomainConfig(domain_name).depends_on) \subseteq DomainKeys)
    THEN Raised("DependencyError", resolved, visiting, <<>>)
    ELSE IF ~DomainConfig(domain_name).enabled
    THEN Returned(<<>>, resolved, visiting, <<>>)
    ELSE Leave(domain_name,
               resolve_depends_on(DomainConfig(domain_name).depends_on, 1,
                   Returned(<<>>, resolved, visiting \cup {domain_name},
                            <<domain_name>>)))

\* resolve_dependencies that follows the depends_on of a domain that is not
\* enabled, without listing the domain
resolve_dependencies_through_disabled(domain_name, resolved, visiting) ==
    IF domain_name \in resolved
    THEN Returned(<<>>, resolved, visiting, <<>>)
    ELSE IF domain_name \in visiting
    THEN Raised("DependencyError", resolved, visiting, <<>>)
    ELSE IF domain_name \notin DomainKeys
    THEN Raised("DomainNotFoundError", resolved, visiting, <<>>)
    ELSE IF ~DomainConfig(domain_name).enabled
    THEN LeaveUnlisted(domain_name,
               resolve_depends_on(DomainConfig(domain_name).depends_on, 1,
                   Returned(<<>>, resolved, visiting \cup {domain_name}, <<>>)))
    ELSE Leave(domain_name,
               resolve_depends_on(DomainConfig(domain_name).depends_on, 1,
                   Returned(<<>>, resolved, visiting \cup {domain_name},
                            <<domain_name>>)))

\* resolve_dependencies without the resolved test of lines 96-97
resolve_dependencies_forgetting(domain_name, resolved, visiting) ==
    IF domain_name \in visiting
    THEN Raised("DependencyError", resolved, visiting, <<>>)
    ELSE IF domain_name \notin DomainKeys
    THEN Raised("DomainNotFoundError", resolved, visiting, <<>>)
    ELSE IF ~DomainConfig(domain_name).enabled
    THEN Returned(<<>>, resolved, visiting, <<>>)
    ELSE Leave(domain_name,
               resolve_depends_on(DomainConfig(domain_name).depends_on, 1,
                   Returned(<<>>, resolved, visiting \cup {domain_name},
                            <<domain_name>>)))

\* resolve_dependencies that refuses a dependency that is not enabled
resolve_dependencies_refusing(domain_name, resolved, visiting) ==
    IF domain_name \in resolved
    THEN Returned(<<>>, resolved, visiting, <<>>)
    ELSE IF domain_name \in visiting
    THEN Raised("DependencyError", resolved, visiting, <<>>)
    ELSE IF domain_name \notin DomainKeys
    THEN Raised("DomainNotFoundError", resolved, visiting, <<>>)
    ELSE IF ~DomainConfig(domain_name).enabled
    THEN Raised("DependencyError", resolved, visiting, <<>>)
    ELSE Leave(domain_name,
               resolve_depends_on(DomainConfig(domain_name).depends_on, 1,
                   Returned(<<>>, resolved, visiting \cup {domain_name},
                            <<domain_name>>)))

\* resolve_dependencies without the enabled test of lines 105-107
resolve_dependencies_disabled_too(domain_name, resolved, visiting) ==
    IF domain_name \in resolved
    THEN Returned(<<>>, resolved, visiting, <<>>)
    ELSE IF domain_name \in visiting
    THEN Raised("DependencyError", resolved, visiting, <<>>)
    ELSE IF domain_name \notin DomainKeys
    THEN Raised("DomainNotFoundError", resolved, visiting, <<>>)
    ELSE Leave(domain_name,
               resolve_depends_on(DomainConfig(domain_name).depends_on, 1,
                   Returned(<<>>, resolved, visiting \cup {domain_name},
                            <<domain_name>>)))

resolve_dependencies(domain_name, resolved, visiting) ==
    IF domain_name \in resolved
    THEN Returned(<<>>, resolved, visiting, <<>>)
    ELSE IF domain_name \in visiting
    THEN Raised("DependencyError", resolved, visiting, <<>>)
    ELSE IF domain_name \notin DomainKeys
    THEN Raised("DomainNotFoundError", resolved, visiting, <<>>)
    ELSE IF ~DomainConfig(domain_name).enabled
    THEN Returned(<<>>, resolved, visiting, <<>>)
    ELSE Leave(domain_name,
               resolve_depends_on(DomainConfig(domain_name).depends_on, 1,
                   Returned(<<>>, resolved, visiting \cup {domain_name},
                            <<domain_name>>)))

\* the loop of lines 137-141 from key i of the map on
RECURSIVE resolve_enabled(_, _)
resolve_enabled(i, acc) ==
    IF i > Len(domains) \/ acc.raised # "none" THEN acc
    ELSE IF ~domains[i].enabled THEN resolve_enabled(i + 1, acc)
    ELSE resolve_enabled(i + 1,
             Extend(acc, resolve_dependencies(domains[i].name, acc.resolved,
                                              acc.visiting)))

\* lines 143-149: drop repeated names, keeping each first occurrence
RemoveDuplicates(order) ==
    Names(SelectSeq([i \in DOMAIN order |->
                        [name |-> order[i],
                         first |-> \A j \in 1..(i - 1) : order[j] # order[i]]],
                    LAMBDA e : e.first))

\* lines 143-151 on the outcome r of the loop
Deduplicated(r) ==
    [raised |-> r.raised,
     value |-> IF r.raised = "none" THEN RemoveDuplicates(r.order) ELSE <<>>,
     order |-> r.order,
     entered |-> r.entered]

\* get_enabled_domains whose resolved set outlives the call that filled it
GetEnabledDomainsRemembering ==
    Deduplicated(resolve_enabled(1,
        Returned(<<>>, IF loaded THEN SeqToSet(imported) ELSE {}, {}, <<>>)))

\* get_enabled_domains(): [raised, value, order, entered]; order is the
\* concatenation before lines 143-149, value the list returned
GetEnabledDomains == Deduplicated(resolve_enabled(1, Returned(<<>>, {}, {}, <<>>)))

----------------------------------------------------------------------------
(* load_domains.  A module's exports are [has_TOOLS, TOOLS, has_DEFS,       *)
(* TOOL_DEFINITIONS]: TOOLS lists the keys of the mapping in its order, a  *)
(* definition is [name, keys, module, index] (keys: the keys the record    *)
(* holds; module and index: which object it is).  importable says how the  *)
(* import of each domain's module ends during this call: "ok",             *)
(* "ImportError" (ModuleNotFoundError included) or "Exception" (the module *)
(* raises something that is no ImportError while it is imported).          *)

ImportOutcomes == {"ok", "ImportError", "Exception"}

\* domain_config.get('tools', []) as the set of line 180 and line 188
ConfiguredTools(domain_name) == SeqToSet(DomainConfig(domain_name).tools)

\* tool_def.get('name', '')
DefName(tool_def) == IF "name" \in tool_def.keys THEN tool_def.name ELSE ""

\* lines 181-183 from key i of TOOLS on
RECURSIVE merge_tools(_, _, _, _)

\* merge_tools that keeps the callable a name already has
merge_tools_keeping(domain_name, domain_tools, i, acc) ==
    IF i > Len(domain_tools) THEN acc
    ELSE merge_tools(domain_name, domain_tools, i + 1,
             IF /\ domain_tools[i] \in ConfiguredTools(domain_name)
                /\ domain_tools[i] \notin DictKeys(acc)
             THEN DictSet(acc, domain_tools[i],
                          [module |-> domain_name, name |-> domain_tools[i]])
             ELSE acc)

merge_tools(domain_name, domain_tools, i, acc) ==
    IF i > Len(domain_tools) THEN acc
    ELSE merge_tools(domain_name, domain_tools, i + 1,
             IF domain_tools[i] \in ConfiguredTools(domain_name)
             THEN DictSet(acc, domain_tools[i],
                          [module |-> domain_name, name |-> domain_tools[i]])
             ELSE acc)

\* merge_definitions that appends every exported record
merge_definitions_unfiltered(domain_name, domain_defs, acc) == acc \o domain_defs

\* the records of domain_defs taken name by name from entry i of the
\* allow-list on
RECURSIVE InAllowListOrder(_, _, _)
InAllowListOrder(allow, i, domain_defs) ==
    IF i > Len(allow) THEN <<>>
    ELSE SelectSeq(domain_defs, LAMBDA tool_def : DefName(tool_def) = allow[i])
         \o InAllowListOrder(allow, i + 1, domain_defs)

\* merge_definitions that appends in the order of the allow-list
merge_definitions_as_listed(domain_name, domain_defs, acc) ==
    acc \o InAllowListOrder(DomainConfig(domain_name).tools, 1, domain_defs)

\* lines 190-193
merge_definitions(domain_name, domain_defs, acc) ==
    acc \o SelectSeq(domain_defs,
                     LAMBDA tool_def : DefName(tool_def) \in ConfiguredTools(domain_name))

\* lines 176-193 for one imported module
merge_module(domain_name, reg) ==
    LET m == modules[domain_name] IN
    [reg EXCEPT
       !.tools = IF m.has_TOOLS
                 THEN merge_tools(domain_name, m.TOOLS, 1, @) ELSE @,
       !.tool_definitions =
                 IF m.has_DEFS
                 THEN merge_definitions(domain_name, m.TOOL_DEFINITIONS, @) ELSE @]

\* the except clause of lines 195-198: what leaves load_domains when the
\* import of a module ends with outcome
ImportFailure(outcome) ==
    IF outcome = "ImportError" THEN "ConfigurationError" ELSE outcome

\* line 173: the call is made, and counted, whether or not it succeeds
import_module(domain_name, reg) ==
    [reg EXCEPT !.imported = Append(@, domain_name)]

\* lines 167-198 from entry i of enabled_domains on
RECURSIVE load_each(_, _, _, _)

\* load_each that sets loaded after the first module it has merged
load_each_one(enabled_domains, i, importable, reg) ==
    IF i > Len(enabled_domains) \/ i > 1 THEN [reg EXCEPT !.loaded = TRUE]
    ELSE IF importable[enabled_domains[i]] # "ok"
    THEN [import_module(enabled_domains[i], reg) EXCEPT
             !.raised = ImportFailure(importable[enabled_domains[i]]),
             !.domain = enabled_domains[i]]
    ELSE load_each(enabled_domains, i + 1, importable,
             merge_module(enabled_domains[i],
                          import_module(enabled_domains[i], reg)))

load_each(enabled_domains, i, importable, reg) ==
    IF i > Len(enabled_domains) THEN [reg EXCEPT !.loaded = TRUE]
    ELSE IF importable[enabled_domains[i]] # "ok"
    THEN [import_module(enabled_domains[i], reg) EXCEPT
             !.raised = ImportFailure(importable[enabled_domains[i]]),
             !.domain = enabled_domains[i]]
    ELSE load_each(enabled_domains, i + 1, importable,
             merge_module(enabled_domains[i],
                          import_module(enabled_domains[i], reg)))

\* the registry as a record, with the outcome of the call on it
Registry ==
    [raised |-> "none", domain |-> "", ran |-> FALSE, loaded |-> loaded,
     tools |-> tools, tool_definitions |-> tool_definitions,
     imported |-> imported]

\* lines 165-200 with an error of get_enabled_domains swallowed
LoadEnabledWhatever(importable, e) ==
    load_each(e.value, 1, importable, [Registry EXCEPT !.ran = TRUE])

\* lines 165-200, e being what get_enabled_domains gave
LoadEnabled(importable, e) ==
    IF e.raised # "none" THEN [Registry EXCEPT !.raised = e.raised]
    ELSE load_each(e.value, 1, importable, [Registry EXCEPT !.ran = TRUE])

\* load_domains without the test of lines 162-163
LoadDomainsAgain(importable) == LoadEnabled(importable, GetEnabledDomains)

\* load_domains(): the registry after the call
LoadDomains(importable) ==
    IF loaded THEN Registry ELSE LoadEnabled(importable, GetEnabledDomains)

----------------------------------------------------------------------------
(* The facade operations as actions.  Every lazy operation runs            *)
(* load_domains first when the registry is not loaded.                     *)

\* the ways the imports of one call can end, as far as the call can tell: a
\* loaded registry imports nothing, and line 138 and line 106 keep a domain
\* that is not enabled out of enabled_domains
Importables ==
    IF loaded THEN {[d \in DomainKeys |-> "ok"]}
    ELSE {importable \in [DomainKeys -> ImportOutcomes] :
             \A d \in DomainKeys : ~DomainConfig(d).enabled => importable[d] = "ok"}

MayLoad == loaded \/ load_runs < MaxLoadRuns

Store(reg) ==
    /\ loaded' = reg.loaded
    /\ tools' = reg.tools
    /\ tool_definitions' = reg.tool_definitions
    /\ imported' = reg.imported
    /\ load_runs' = IF reg.ran THEN load_runs + 1 ELSE load_runs
    /\ UNCHANGED <<threads, config_path, domains, modules>>

Call(op, arg, reg, value) ==
    [op |-> op, arg |-> arg, raised |-> reg.raised, domain |-> reg.domain,
     ran |-> reg.ran, value |-> IF reg.raised = "none" THEN value ELSE <<>>]

load_domains ==
    /\ MayLoad
    /\ \E importable \in Importables :
         \E reg \in {LoadDomains(importable)} :
         /\ Store(reg)
         /\ last' = Call("load_domains", "", reg, <<>>)

get_all_tools ==
    /\ MayLoad
    /\ \E importable \in Importables :
         \E reg \in {LoadDomains(importable)} :
         /\ Store(reg)
         /\ last' = Call("get_all_tools", "", reg, reg.tools)

\* a failed lookup that throws the loaded tables away
LookUpInvalidating(name, reg) ==
    IF reg.raised # "none" THEN reg
    ELSE IF name \notin DictKeys(reg.tools)
    THEN [reg EXCEPT !.raised = "ToolNotFoundError", !.loaded = FALSE,
                     !.tools = <<>>, !.tool_definitions = <<>>]
    ELSE reg

\* lines 229-232 on the loaded registry reg
LookUp(name, reg) ==
    IF reg.raised # "none" THEN reg
    ELSE IF name \notin DictKeys(reg.tools)
    THEN [reg EXCEPT !.raised = "ToolNotFoundError"]
    ELSE reg

get_tool(name) ==
    /\ MayLoad
    /\ \E importable \in Importables :
         \E reg \in {LookUp(name, LoadDomains(importable))} :
         /\ Store(reg)
         /\ last' = Call("get_tool", name, reg,
                         IF reg.raised = "none"
                         THEN <<DictGet(reg.tools, name)>> ELSE <<>>)

get_tool_definitions ==
    /\ MayLoad
    /\ \E importable \in Importables :
         \E reg \in {LoadDomains(importable)} :
         /\ Store(reg)
         /\ last' = Call("get_tool_definitions", "", reg, reg.tool_definitions)

\* the entry of lines 254-261 for one definition
OpenAITool(tool_def) ==
    [type |-> "function",
     function |-> [name |-> tool_def.name,
                   description |-> <<tool_def.module, tool_def.index>>,
                   parameters |-> <<tool_def.module, tool_def.index>>]]

\* lines 253-263 on the definitions of reg: a missing key is a KeyError
Wrap(reg) ==
    IF reg.raised # "none" THEN reg
    ELSE IF \E i \in DOMAIN reg.tool_definitions :
              ~(DefKeys \subseteq reg.tool_definitions[i].keys)
    THEN [reg EXCEPT !.raised = "KeyError"]
    ELSE reg

get_openai_tools ==
    /\ MayLoad
    /\ \E importable \in Importables :
         \E reg \in {Wrap(LoadDomains(importable))} :
         /\ Store(reg)
         /\ last' = Call("get_openai_tools", "", reg,
                         IF reg.raised = "none"
                         THEN [i \in DOMAIN reg.tool_definitions |->
                                  OpenAITool(reg.tool_definitions[i])]
                         ELSE <<>>)

list_tools ==
    /\ MayLoad
    /\ \E importable \in Importables :
         \E reg \in {LoadDomains(importable)} :
         /\ Store(reg)
         /\ last' = Call("list_tools", "", reg, Names(reg.tools))

\* get_domain_info that loads the domains first, like the lazy operations
DomainInfoLoading(domain_name) ==
    IF domain_name \notin DomainKeys
    THEN [Registry EXCEPT !.raised = "DomainNotFoundError"]
    ELSE LoadDomains([d \in DomainKeys |-> "ok"])

\* lines 289-291
DomainInfo(domain_name) ==
    IF domain_name \notin DomainKeys
    THEN [Registry EXCEPT !.raised = "DomainNotFoundError"]
    ELSE Registry

get_domain_info(domain_name) ==
    \E reg \in {DomainInfo(domain_name)} :
       /\ Store(reg)
       /\ last' = Call("get_domain_info", domain_name, reg,
                       IF reg.raised = "none"
                       THEN <<DomainConfig(domain_name)>> ELSE <<>>)

get_enabled_domains ==
    /\ \E e \in {GetEnabledDomains} :
          last' = Call("get_enabled_domains", "",
                       [Registry EXCEPT !.raised = e.raised], e.value)
    /\ UNCHANGED <<threads, config_path, domains, modules, loaded, tools,
                   tool_definitions, imported, load_runs>>

----------------------------------------------------------------------------
(* load_domains statement by statement, for callers on several threads.    *)
(* A thread is [pc, enabled_domains, i, raised]: the line it is about to   *)
(* execute, its local enabled_domains, the index of the loop, and the      *)
(* exception that ended its call.  Nothing in lines 153-200 takes a lock.  *)

At(t, pc) == threads[t].pc = pc

\* the domain the loop of thread t is at
Current(t) == threads[t].enabled_domains[threads[t].i]

\* the statement after the loop body for entry i of enabled_domains
AfterEntry(enabled_domains, i) ==
    IF i > Len(enabled_domains) THEN "line200" ELSE "line173"

\* domain_name's module is in sys.modules: some thread has imported it
InSysModules(domain_name) ==
    \E t \in Threads : \E j \in DOMAIN threads[t].enabled_domains :
       /\ threads[t].enabled_domains[j] = domain_name
       /\ \/ j < threads[t].i
          \/ j = threads[t].i /\ threads[t].pc = "line176"

\* a thread calls load_domains()
call_load_domains(t) ==
    /\ At(t, "idle")
    /\ threads' = [threads EXCEPT ![t].pc = "line162"]
    /\ UNCHANGED <<config_path, domains, modules, loaded, tools,
                   tool_definitions, imported, load_runs, last>>

\* a thread calls a lazy operation: lines 209-210, 226-227, 241-242, 272-273
call_lazy_operation(t) ==
    /\ At(t, "idle")
    /\ threads' = [threads EXCEPT ![t].pc =
                                    IF loaded THEN "returned" ELSE "line162"]
    /\ UNCHANGED <<config_path, domains, modules, loaded, tools,
                   tool_definitions, imported, load_runs, last>>

\* lines 162-163
test_loaded(t) ==
    /\ At(t, "line162")
    /\ threads' = [threads EXCEPT ![t].pc =
                                    IF loaded THEN "returned" ELSE "line165"]
    /\ UNCHANGED <<config_path, domains, modules, loaded, tools,
                   tool_definitions, imported, load_runs, last>>

\* line 165
resolve(t) ==
    /\ At(t, "line165")
    /\ \E e \in {GetEnabledDomains} :
         /\ threads' = [threads EXCEPT ![t] =
               IF e.raised # "none"
               THEN [@ EXCEPT !.pc = "raised", !.raised = e.raised]
               ELSE [@ EXCEPT !.pc = AfterEntry(e.value, 1),
                              !.enabled_domains = e.value, !.i = 1]]
         /\ load_runs' = IF e.raised = "none" THEN load_runs + 1 ELSE load_runs
    /\ UNCHANGED <<config_path, domains, modules, loaded, tools,
                   tool_definitions, imported, last>>

\* lines 171-173 and 195-198: a module in sys.modules is not executed again
import_step(t) ==
    /\ At(t, "line173")
    /\ \E outcome \in IF InSysModules(Current(t)) THEN {"ok"} ELSE ImportOutcomes :
         threads' = [threads EXCEPT ![t] =
               IF outcome = "ok" THEN [@ EXCEPT !.pc = "line176"]
               ELSE [@ EXCEPT !.pc = "raised", !.raised = ImportFailure(outcome)]]
    /\ imported' = import_module(Current(t), Registry).imported
    /\ UNCHANGED <<config_path, domains, modules, loaded, tools,
                   tool_definitions, load_runs, last>>

\* lines 176-193
merge_step(t) ==
    /\ At(t, "line176")
    /\ \E reg \in {merge_module(Current(t), Registry)} :
         /\ tools' = reg.tools
         /\ tool_definitions' = reg.tool_definitions
    /\ threads' = [threads EXCEPT ![t] =
                      [@ EXCEPT !.i = @ + 1,
                                !.pc = AfterEntry(threads[t].enabled_domains,
                                                  threads[t].i + 1)]]
    /\ UNCHANGED <<config_path, domains, modules, loaded, imported, load_runs,
                   last>>

\* line 200
set_loaded(t) ==
    /\ At(t, "line200")
    /\ loaded' = TRUE
    /\ threads' = [threads EXCEPT ![t].pc = "returned"]
    /\ UNCHANGED <<config_path, domains, modules, tools, tool_definitions,
                   imported, load_runs, last>>

----------------------------------------------------------------------------
(* A caller that keeps the value get_all_tools or get_tool_definitions     *)
(* returned, here last.value, and changes it.  dict.copy() and list.copy() *)
(* are shallow: the returned list is a new list of the records the         *)
(* registry holds, which are the records of the modules' TOOL_DEFINITIONS. *)

HoldsTools ==
    \/ last.op = "get_all_tools" /\ last.raised = "none"
    \/ last.op = "mutate_tools"

HoldsDefinitions ==
    \/ last.op = "get_tool_definitions" /\ last.raised = "none"
    \/ last.op = "mutate_definitions"

Mutated(op, arg, value) ==
    [op |-> op, arg |-> arg, raised |-> "none", domain |-> "", ran |-> FALSE,
     value |-> value]

CallerFunc(name) == [module |-> "caller", name |-> name]

CallerRecord ==
    [name |-> "y", keys |-> DefKeys, module |-> "caller", index |-> 0]

Remove(seq, i) ==
    [j \in 1..(Len(seq) - 1) |-> IF j < i THEN seq[j] ELSE seq[j + 1]]

\* result[name] = f on the dict get_all_tools returned (line 211: a copy)
setitem_tools(name) ==
    /\ HoldsTools
    /\ last' = Mutated("mutate_tools", name,
                       DictSet(last.value, name, CallerFunc(name)))
    /\ UNCHANGED <<threads, config_path, domains, modules, loaded, tools,
                   tool_definitions, imported, load_runs>>

\* del result[name] on the dict get_all_tools returned
delitem_tools(name) ==
    /\ HoldsTools
    /\ name \in DictKeys(last.value)
    /\ last' = Mutated("mutate_tools", name,
                       SelectSeq(last.value, LAMBDA e : e.name # name))
    /\ UNCHANGED <<threads, config_path, domains, modules, loaded, tools,
                   tool_definitions, imported, load_runs>>

\* result.append(record) on the list get_tool_definitions returned (line 243)
append_definition ==
    /\ HoldsDefinitions
    /\ Len(last.value) < MaxHeld
    /\ last' = Mutated("mutate_definitions", "append",
                       Append(last.value, CallerRecord))
    /\ UNCHANGED <<threads, config_path, domains, modules, loaded, tools,
                   tool_definitions, imported, load_runs>>

\* del result[i]
delitem_definitions(i) ==
    /\ HoldsDefinitions
    /\ i \in DOMAIN last.value
    /\ last' = Mutated("mutate_definitions", "del", Remove(last.value, i))
    /\ UNCHANGED <<threads, config_path, domains, modules, loaded, tools,
                   tool_definitions, imported, load_runs>>

\* result[i] = record
setitem_definitions(i) ==
    /\ HoldsDefinitions
    /\ i \in DOMAIN last.value
    /\ last' = Mutated("mutate_definitions", "set",
                       [last.value EXCEPT ![i] = CallerRecord])
    /\ UNCHANGED <<threads, config_path, domains, modules, loaded, tools,
                   tool_definitions, imported, load_runs>>

\* the list defs after the dict object tool_def has become new: every
\* reference to the object sees the change
InPlace(defs, tool_def, new) ==
    [j \in DOMAIN defs |->
        IF defs[j].module = tool_def.module /\ defs[j].index = tool_def.index
        THEN new ELSE defs[j]]

\* a statement that changes the record result[i], a record of the registry,
\* into new
ModifyRecord(i, new) ==
    /\ last.value[i].module # "caller"
    /\ last' = Mutated("mutate_definitions", "record",
                       InPlace(last.value, last.value[i], new))
    /\ tool_definitions' = InPlace(tool_definitions, last.value[i], new)
    /\ modules' = [d \in DOMAIN modules |->
                      [modules[d] EXCEPT !.TOOL_DEFINITIONS =
                                            InPlace(@, last.value[i], new)]]
    /\ UNCHANGED <<threads, config_path, domains, loaded, tools, imported, load_runs>>

\* result[i]["name"] = name
setitem_record(i, name) ==
    /\ HoldsDefinitions
    /\ i \in DOMAIN last.value
    /\ ModifyRecord(i, [last.value[i] EXCEPT !.name = name,
                                             !.keys = @ \cup {"name"}])

\* del result[i][key]
delitem_record(i, key) ==
    /\ HoldsDefinitions
    /\ i \in DOMAIN last.value
    /\ key \in last.value[i].keys
    /\ ModifyRecord(i, [last.value[i] EXCEPT !.keys = @ \ {key}])

----------------------------------------------------------------------------
(* Configurations: what a constructed registry has parsed, and the modules *)
(* its domains name.                                                       *)

\* the depends_on lists, over listed, of the domains names: at most
\* maxEdges entries in all
RECURSIVE DependsOn(_, _, _)
DependsOn(names, listed, maxEdges) ==
    IF names = {} THEN {<<>>}
    ELSE LET k == CHOOSE k \in names : TRUE IN
         UNION {{(k :> s) @@ f :
                    f \in DependsOn(names \ {k}, listed, maxEdges - Len(s))} :
                s \in SeqsUpTo(listed, maxEdges)}

\* the maps over names in every key order, with every enabled flag
DomainMaps(names, maxEdges, allow) ==
    {[i \in DOMAIN keys |->
         [name |-> keys[i], enabled |-> enabled[keys[i]],
          depends_on |-> deps[keys[i]], tools |-> allow[keys[i]]]] :
       keys \in Perms(names), enabled \in [names -> BOOLEAN],
       deps \in DependsOn(names, names \cup {UnknownDomain}, maxEdges)}

\* a TOOL_DEFINITIONS list with the given names, every record complete
Definitions(domain_name, names) ==
    [i \in DOMAIN names |->
        [name |-> names[i], keys |-> DefKeys, module |-> domain_name, index |-> i]]

Exports(domain_name, has_TOOLS, keys, has_DEFS, names) ==
    [has_TOOLS |-> has_TOOLS, TOOLS |-> keys, has_DEFS |-> has_DEFS,
     TOOL_DEFINITIONS |-> Definitions(domain_name, names)]

\* the exports a module can have over the tool names T, lists up to n long
ModuleShapes(domain_name, T, n) ==
    {Exports(domain_name, FALSE, <<>>, FALSE, <<>>)}
    \cup {Exports(domain_name, TRUE, keys, FALSE, <<>>) :
             keys \in {k \in SeqsUpTo(T, n) : NoRepeat(k)}}
    \cup {Exports(domain_name, FALSE, <<>>, TRUE, names) : names \in SeqsUpTo(T, n)}
    \cup {Exports(domain_name, TRUE, keys, TRUE, names) :
             keys \in {k \in SeqsUpTo(T, n) : NoRepeat(k)}, names \in SeqsUpTo(T, n)}

\* resolver maps: three domains, no tools
ResolverConfigs ==
    {[domains |-> m,
      modules |-> [d \in ResolverNames |-> Exports(d, FALSE, <<>>, FALSE, <<>>)]] :
       m \in DomainMaps(ResolverNames, MaxEdges, [d \in ResolverNames |-> <<>>])}

\* two domains in every dependency shape; each allow-lists x and exports x and y
MapConfigs ==
    {[domains |-> m,
      modules |-> [d \in FacadeNames |->
                      Exports(d, TRUE, <<"x", "y">>, TRUE, <<"x", "y">>)]] :
       m \in DomainMaps(FacadeNames, MaxFacadeEdges, [d \in FacadeNames |-> <<"x">>])}

\* one enabled domain with every allow-list and every module shape
ExportConfigs ==
    {[domains |-> <<[name |-> "a", enabled |-> TRUE, depends_on |-> <<>>,
                     tools |-> allow]>>,
      modules |-> [d \in {"a"} |-> m]] :
       allow \in {t \in SeqsUpTo(ToolNames, MaxExports) : NoRepeat(t)},
       m \in ModuleShapes("a", ToolNames, MaxExports)}

\* a module that exports x in each structure it has
ExportsX(domain_name) ==
    {m \in ModuleShapes(domain_name, {"x"}, 1) :
        /\ m.has_TOOLS => m.TOOLS # <<>>
        /\ m.has_DEFS => m.TOOL_DEFINITIONS # <<>>}

\* two enabled domains that may allow-list and export the same tool x
SharedConfigs ==
    {[domains |-> [i \in 1..2 |->
                      [name |-> <<"a", "b">>[i], enabled |-> TRUE,
                       depends_on |-> <<>>, tools |-> allow[<<"a", "b">>[i]]]],
      modules |-> m] :
       allow \in [FacadeNames -> SeqsUpTo({"x"}, 1)],
       m \in {f \in [FacadeNames -> UNION {ExportsX(d) : d \in FacadeNames}] :
                 \A d \in FacadeNames : f[d] \in ExportsX(d)}}

\* one enabled domain whose single definition holds any of the three keys
RecordConfigs ==
    {[domains |-> <<[name |-> "a", enabled |-> TRUE, depends_on |-> <<>>,
                     tools |-> <<"x">>]>>,
      modules |-> [d \in {"a"} |->
                      [has_TOOLS |-> TRUE, TOOLS |-> <<"x">>, has_DEFS |-> TRUE,
                       TOOL_DEFINITIONS |->
                           <<[name |-> "x", keys |-> ks, module |-> "a",
                              index |-> 1]>>]]] :
       ks \in SUBSET DefKeys}

----------------------------------------------------------------------------
(* The constructor: what is at config_path, what yaml.safe_load makes of   *)
(* it, and the test of lines 74-77 on the parsed value.                    *)

\* the Python values safe_load returns: items holds the words of a str, the
\* items of a list, the keys of a dict; domains the value under "domains"
PyNone == [type |-> "NoneType", int |-> 0, items |-> <<>>, domains |-> <<>>]
PyInt(n) == [type |-> "int", int |-> n, items |-> <<>>, domains |-> <<>>]
PyStr(words) == [type |-> "str", int |-> 0, items |-> words, domains |-> <<>>]
PyList(items) == [type |-> "list", int |-> 0, items |-> items, domains |-> <<>>]
PyDict(keys, m) == [type |-> "dict", int |-> 0, items |-> keys, domains |-> m]

\* a thread that has not called the registry
Idle == [pc |-> "idle", enabled_domains |-> <<>>, i |-> 0, raised |-> "none"]

\* nothing at the path, a file that is no YAML, a file holding document
Missing == [exists |-> FALSE, parses |-> FALSE, document |-> PyNone]
Unparsable == [exists |-> TRUE, parses |-> FALSE, document |-> PyNone]
File(document) == [exists |-> TRUE, parses |-> TRUE, document |-> document]

\* bool(value), the "not self.config" of line 74
Truthy(value) ==
    CASE value.type = "NoneType" -> FALSE
      [] value.type = "int" -> value.int # 0
      [] OTHER -> value.items # <<>>

ConfigFailed(error) == [raised |-> error, domains |-> <<>>]

\* lines 70-72
safe_load(source) ==
    IF source.parses THEN [raised |-> "none", value |-> source.document]
    ELSE [raised |-> "YAMLError", value |-> PyNone]

\* lines 74-79 on what safe_load gave
validate(parsed) ==
    IF parsed.raised # "none" THEN ConfigFailed(parsed.raised)
    ELSE IF ~Truthy(parsed.value) THEN ConfigFailed("ConfigurationError")
    ELSE IF parsed.value.type = "int" THEN ConfigFailed("TypeError")
    ELSE IF "domains" \notin SeqToSet(parsed.value.items)
    THEN ConfigFailed("ConfigurationError")
    ELSE IF parsed.value.type # "dict" THEN ConfigFailed("AttributeError")
    ELSE [raised |-> "none", domains |-> parsed.value.domains]

\* _load_config, lines 63-79
load_config(source) ==
    IF ~source.exists THEN ConfigFailed("ConfigurationError")
    ELSE validate(safe_load(source))

NotCalled ==
    [op |-> "none", arg |-> "", raised |-> "none", domain |-> "",
     ran |-> FALSE, value |-> <<>>]

\* ToolRegistry(config_path): __init__, lines 41-61
ToolRegistry ==
    /\ last.op = "none"
    /\ \E config \in {load_config(config_path)} :
         /\ domains' = config.domains
         /\ last' = [NotCalled EXCEPT !.op = "__init__", !.raised = config.raised]
    /\ UNCHANGED <<threads, config_path, modules, loaded, tools, tool_definitions,
                   imported, load_runs>>

\* the state __init__ starts from: lines 53-57 have set the empty tables
Unconstructed(source) ==
    /\ config_path = source
    /\ domains = <<>>
    /\ modules = [d \in FacadeNames |->
                     Exports(d, TRUE, <<"x", "y">>, TRUE, <<"x", "y">>)]
    /\ loaded = FALSE
    /\ tools = <<>>
    /\ tool_definitions = <<>>
    /\ imported = <<>>
    /\ load_runs = 0
    /\ last = NotCalled
    /\ threads = [t \in Threads |-> Idle]

TopLevelKeys == {"domains", "version"}

\* documents that are no mapping
Scalars ==
    {PyNone, PyInt(0), PyInt(1), PyStr(<<"domains">>),
     PyStr(<<"my", "domains">>), PyStr(<<"version">>)}

Lists == {PyList(items) : items \in SeqsUpTo(TopLevelKeys, 2)}

\* mappings without a domains key
OtherDicts == {PyDict(<<>>, <<>>), PyDict(<<"version">>, <<>>)}

\* mappings with the domain map m under domains
DomainsDicts(m) ==
    {PyDict(keys, m) : keys \in Perms(TopLevelKeys) \cup {<<"domains">>}}

\* the state after __init__, lines 53-61, has returned on config
Constructed(config) ==
    /\ config_path = File(PyDict(<<"domains">>, config.domains))
    /\ domains = config.domains
    /\ modules = config.modules
    /\ loaded = FALSE
    /\ tools = <<>>
    /\ tool_definitions = <<>>
    /\ imported = <<>>
    /\ load_runs = 0
    /\ last = [op |-> "__init__", arg |-> "", raised |-> "none", domain |-> "",
               ran |-> FALSE, value |-> <<>>]
    /\ threads = [t \in Threads |-> Idle]

----------------------------------------------------------------------------
(* The registry behind its facade.                                         *)

Init ==
    \/ \E config \in MapConfigs : Constructed(config)
    \/ \E config \in ExportConfigs : Constructed(config)
    \/ \E config \in SharedConfigs : Constructed(config)
    \/ \E config \in RecordConfigs : Constructed(config)

Next ==
    \/ load_domains
    \/ get_all_tools
    \/ \E name \in ToolNames \cup {UnknownTool} : get_tool(name)
    \/ get_tool_definitions
    \/ get_openai_tools
    \/ list_tools
    \/ \E domain_name \in DomainKeys \cup {UnknownDomain} : get_domain_info(domain_name)
    \/ get_enabled_domains

Spec == Init /\ [][Next]_vars

(* Callers of load_domains on two threads.                                 *)

InitThreads == \E config \in MapConfigs : Constructed(config)

NextThreads ==
    \E t \in Threads :
       \/ call_load_domains(t)
       \/ call_lazy_operation(t)
       \/ test_loaded(t)
       \/ resolve(t)
       \/ import_step(t)
       \/ merge_step(t)
       \/ set_loaded(t)

SpecThreads == InitThreads /\ [][NextThreads]_vars

(* The registry and a caller that changes what it was given.               *)

InitCallers ==
    \/ \E config \in SharedConfigs : Constructed(config)
    \/ \E config \in RecordConfigs : Constructed(config)

NextCallers ==
    \/ load_domains
    \/ get_all_tools
    \/ \E name \in ToolNames \cup {UnknownTool} : get_tool(name)
    \/ get_tool_definitions
    \/ get_openai_tools
    \/ list_tools
    \/ \E name \in ToolNames : setitem_tools(name)
    \/ \E name \in ToolNames : delitem_tools(name)
    \/ append_definition
    \/ \E i \in 1..MaxHeld : delitem_definitions(i)
    \/ \E i \in 1..MaxHeld : setitem_definitions(i)
    \/ \E i \in 1..MaxHeld : \E name \in ToolNames : setitem_record(i, name)
    \/ \E i \in 1..MaxHeld : \E key \in DefKeys : delitem_record(i, key)

SpecCallers == InitCallers /\ [][NextCallers]_vars

(* The constructor on every configuration source.                          *)

InitConfig ==
    \/ Unconstructed(Missing)
    \/ Unconstructed(Unparsable)
    \/ \E document \in Scalars \cup Lists \cup OtherDicts :
          Unconstructed(File(document))
    \/ \E m \in DomainMaps(FacadeNames, MaxFacadeEdges,
                           [d \in FacadeNames |-> <<"x">>]) :
          \E document \in DomainsDicts(m) : Unconstructed(File(document))

NextConfig == ToolRegistry

SpecConfig == InitConfig /\ [][NextConfig]_vars

(* The dependency resolver on every three-domain map.                      *)

InitDeps == \E config \in ResolverConfigs : Constructed(config)

NextDeps == get_enabled_domains

SpecDeps == InitDeps /\ [][NextDeps]_vars

----------------------------------------------------------------------------
(* The depends_on graph of the map.                                        *)

EnabledDomains == {d \in DomainKeys : DomainConfig(d).enabled}

DependsOnNames(d) == SeqToSet(DomainConfig(d).depends_on)

\* the domains reached from the set S in at most n depends_on steps that
\* stay inside the set within
RECURSIVE Reached(_, _, _)
Reached(S, n, within) ==
    IF n = 0 THEN S
    ELSE Reached(S \cup (UNION {DependsOnNames(d) : d \in S} \cap within),
                 n - 1, within)

DependsTransitively(d, within) ==
    Reached(DependsOnNames(d) \cap within, Cardinality(DomainKeys), within)

Acyclic == \A d \in DomainKeys : d \notin DependsTransitively(d, DomainKeys)

OnlyKnownNames == \A d \in DomainKeys : DependsOnNames(d) \subseteq DomainKeys

EnabledCycle == \E d \in EnabledDomains : d \in DependsTransitively(d, EnabledDomains)

UnknownDependency ==
    \E d \in EnabledDomains : ~(DependsOnNames(d) \subseteq DomainKeys)

Occurrences(seq, x) == {i \in DOMAIN seq : seq[i] = x}

Position(seq, x) == CHOOSE i \in DOMAIN seq : seq[i] = x

CalledGetEnabledDomains == last.op = "get_enabled_domains"

----------------------------------------------------------------------------
(* The claims.                                                             *)

\* C1: on a map whose depends_on graph is acyclic and names only keys of the
\* map, get_enabled_domains returns a list that holds every enabled domain
\* exactly once and no other name, each domain after every enabled domain of
\* its depends_on.
C1_TopologicalOrder ==
    (CalledGetEnabledDomains /\ Acyclic /\ OnlyKnownNames) =>
        /\ last.raised = "none"
        /\ SeqToSet(last.value) = EnabledDomains
        /\ \A d \in EnabledDomains : Cardinality(Occurrences(last.value, d)) = 1
        /\ \A d \in EnabledDomains :
             \A e \in DependsOnNames(d) \cap EnabledDomains :
                Position(last.value, e) < Position(last.value, d)

\* C1 witness: the call has returned on an acyclic map in which a domain
\* comes, in key order, before an enabled domain it depends on, and two
\* enabled domains depend on a third.
C1_Witness ==
    /\ CalledGetEnabledDomains /\ Acyclic /\ OnlyKnownNames
    /\ EnabledDomains = DomainKeys
    /\ domains[3].name \in DependsOnNames(domains[1].name)
    /\ domains[3].name \in DependsOnNames(domains[2].name)

\* C2: on a map with a depends_on cycle made of enabled domains only (a
\* domain that lists itself included), get_enabled_domains raises
\* DependencyError and returns no list.
C2_CycleRaises ==
    (CalledGetEnabledDomains /\ EnabledCycle) =>
        /\ last.raised = "DependencyError"
        /\ last.value = <<>>

\* C2 witness: the call was made on a map whose three domains are enabled
\* and form one cycle, the last key of the map depending on the first.
C2_Witness ==
    /\ CalledGetEnabledDomains /\ EnabledCycle
    /\ EnabledDomains = DomainKeys
    /\ \A d \in DomainKeys : d \notin DependsOnNames(d)
    /\ \A d \in DomainKeys : Cardinality(DependsOnNames(d)) = 1
    /\ \A d \in DomainKeys : DependsTransitively(d, DomainKeys) = DomainKeys

\* C3: when an enabled domain's depends_on lists a name that is no key of
\* the map, get_enabled_domains raises DependencyError or
\* DomainNotFoundError and returns no list.
C3_UnknownDependencyRaises ==
    (CalledGetEnabledDomains /\ UnknownDependency) =>
        /\ last.raised \in {"DependencyError", "DomainNotFoundError"}
        /\ last.value = <<>>

\* C3 witness: the call was made on a map whose last key is an enabled
\* domain that lists an unknown name after a known one, no other domain
\* having a dependency.
C3_Witness ==
    /\ CalledGetEnabledDomains
    /\ domains[3].enabled
    /\ Len(domains[3].depends_on) = 2
    /\ domains[3].depends_on[1] \in DomainKeys \ {domains[3].name}
    /\ domains[3].depends_on[2] = UnknownDomain
    /\ domains[1].depends_on = <<>> /\ domains[2].depends_on = <<>>
    /\ last.raised = "DependencyError"

\* a tools entry that the allow-list of the domain that contributed it admits
ToolAllowListed(e) ==
    /\ e.func.module \in EnabledDomains
    /\ e.func.name = e.name
    /\ modules[e.func.module].has_TOOLS
    /\ e.name \in SeqToSet(modules[e.func.module].TOOLS)
    /\ e.name \in ConfiguredTools(e.func.module)

\* a definition that the allow-list of the domain that contributed it admits
DefinitionAllowListed(tool_def) ==
    /\ tool_def.module \in EnabledDomains
    /\ modules[tool_def.module].has_DEFS
    /\ tool_def \in SeqToSet(modules[tool_def.module].TOOL_DEFINITIONS)
    /\ DefName(tool_def) \in ConfiguredTools(tool_def.module)

Returns(op) == last.op = op /\ last.raised = "none"

\* C4: every entry of the tools table, every record of tool_definitions,
\* and every entry get_all_tools and get_tool_definitions return, was
\* exported by the module of an enabled domain whose tools allow-list holds
\* its name; so a tool a module exports outside its domain's allow-list is
\* listed only when another domain allow-lists and exports it.
C4_AllowListEnforced ==
    /\ \A e \in SeqToSet(tools) : ToolAllowListed(e)
    /\ \A tool_def \in SeqToSet(tool_definitions) : DefinitionAllowListed(tool_def)
    /\ Returns("get_all_tools") => \A e \in SeqToSet(last.value) : ToolAllowListed(e)
    /\ Returns("get_tool_definitions") =>
          \A tool_def \in SeqToSet(last.value) : DefinitionAllowListed(tool_def)

\* C4 witness: get_all_tools has returned x on a loaded registry in which
\* domain a exports x and a definition of x outside its allow-list and
\* domain b allow-lists and exports x.
C4_Witness ==
    /\ loaded /\ Returns("get_all_tools")
    /\ DomainKeys = {"a", "b"}
    /\ "x" \notin ConfiguredTools("a") /\ "x" \in ConfiguredTools("b")
    /\ modules["a"].has_TOOLS /\ modules["a"].has_DEFS
    /\ modules["b"].has_TOOLS /\ modules["b"].has_DEFS
    /\ "x" \in DictKeys(last.value)
    /\ Len(tool_definitions) = 1

\* C5: a domain that is not enabled is in no list get_enabled_domains
\* returns, no import_module call is made for it, and no entry of the tools
\* table and no record of tool_definitions comes from its module.
C5_DisabledExcluded ==
    \A d \in DomainKeys \ EnabledDomains :
        /\ d \notin SeqToSet(imported)
        /\ \A e \in SeqToSet(tools) : e.func.module # d
        /\ \A tool_def \in SeqToSet(tool_definitions) : tool_def.module # d
        /\ Returns("get_enabled_domains") => d \notin SeqToSet(last.value)

\* C5 witness: get_enabled_domains has returned on a loaded registry whose
\* enabled domain lists a disabled domain, with a tool in its allow-list,
\* in depends_on.
C5_Witness ==
    /\ loaded /\ Returns("get_enabled_domains")
    /\ tools # <<>>
    /\ \E e \in EnabledDomains : \E d \in DomainKeys \ EnabledDomains :
          /\ d \in DependsOnNames(e)
          /\ "x" \in ConfiguredTools(d)
          /\ e \in SeqToSet(last.value)

\* C6: a load_domains call on a loaded registry returns without an import
\* and leaves loaded, the tools table and tool_definitions as they are.
C6_LoadIdempotent ==
    [][(loaded /\ last'.op = "load_domains") =>
          /\ last'.raised = "none"
          /\ UNCHANGED <<loaded, tools, tool_definitions, imported>>]_vars

\* C6 witness: a load_domains call has returned without running the loading
\* loop on a loaded registry that holds tools and definitions.
C6_Witness ==
    /\ loaded /\ Returns("load_domains") /\ ~last.ran
    /\ tools # <<>> /\ tool_definitions # <<>> /\ imported # <<>>

\* C7 as claimed: get_tool of a name that is not in the tools table raises
\* ToolNotFoundError and nothing else, also when the call is the one that
\* loads the domains.
C7_OnlyToolNotFound ==
    (last.op = "get_tool" /\ last.arg \notin DictKeys(tools)) =>
        last.raised = "ToolNotFoundError"

\* what get_domain_info(domain_name) has to give
DomainInfoGiven(call) ==
    IF call.arg \in DomainKeys
    THEN call.raised = "none" /\ call.value = <<DomainConfig(call.arg)>>
    ELSE call.raised = "DomainNotFoundError"

\* C8: get_domain_info raises DomainNotFoundError for a name that is no key
\* of the map and returns the descriptor otherwise, and in both cases
\* leaves loaded, the tools table, tool_definitions and the import calls
\* as they are.
C8_GetDomainInfo ==
    [][(last'.op = "get_domain_info") =>
          /\ DomainInfoGiven(last')
          /\ UNCHANGED <<loaded, tools, tool_definitions, imported>>]_vars

\* C8 witness: get_domain_info has returned the descriptor of an enabled
\* domain on a registry that is not loaded and has imported nothing.
C8_Witness ==
    /\ Returns("get_domain_info") /\ ~loaded /\ imported = <<>>
    /\ last.arg \in EnabledDomains
    /\ last.value = <<DomainConfig(last.arg)>>

\* C9: loaded never goes back to false, and on a loaded registry no
\* operation changes the tools table or tool_definitions.
C9_LoadedIsFinal ==
    [][loaded => (loaded' /\ UNCHANGED <<tools, tool_definitions>>)]_vars

\* C9 witness: get_tool has raised ToolNotFoundError on a loaded registry
\* that holds tools and definitions.
C9_Witness ==
    /\ loaded /\ last.op = "get_tool" /\ last.raised = "ToolNotFoundError"
    /\ tools # <<>> /\ tool_definitions # <<>>

\* C10 as claimed: when the import of a domain's module fails during
\* load_domains, whatever the module raised, load_domains raises
\* ConfigurationError for that domain.
C10_ImportFailureWrapped ==
    (last.op = "load_domains" /\ last.domain # "") =>
        last.raised = "ConfigurationError"

\* C11 as claimed: a load_domains call that fails on the import of a domain
\* of the resolved order leaves the tools table and tool_definitions as they
\* were before the call, and loaded false.
C11_FailedLoadLeavesNothing ==
    [][(last'.op = "load_domains" /\ last'.domain # "") =>
          /\ UNCHANGED <<tools, tool_definitions>>
          /\ ~loaded']_vars

\* the operations that call load_domains on a registry that is not loaded
LazyOps ==
    {"load_domains", "get_all_tools", "get_tool", "get_tool_definitions",
     "get_openai_tools", "list_tools"}

ResolutionErrors == {"DependencyError", "DomainNotFoundError"}

\* C12: on a map whose resolution fails, every load_domains call and every
\* lazy-loading operation, the first and each one after a failed one, raises
\* the error of the resolution and returns nothing, no import_module call
\* has been made, the tools table and tool_definitions are unchanged and
\* empty, and loaded stays false.
C12_ResolutionFailureLoadsNothing ==
    [][(last'.op \in LazyOps /\ GetEnabledDomains.raised # "none") =>
          /\ last'.raised = GetEnabledDomains.raised
          /\ last'.raised \in ResolutionErrors
          /\ last'.value = <<>>
          /\ (last.op \in LazyOps => last'.raised = last.raised)
          /\ UNCHANGED <<loaded, tools, tool_definitions, imported>>
          /\ ~loaded' /\ imported' = <<>>
          /\ tools' = <<>> /\ tool_definitions' = <<>>]_vars

\* C12 witness: get_all_tools has raised DependencyError on a registry that
\* is not loaded and has imported nothing, the map holding an enabled domain
\* without dependencies before the enabled domain that depends on itself.
C12_Witness ==
    /\ last.op = "get_all_tools" /\ last.raised = "DependencyError"
    /\ ~loaded /\ imported = <<>> /\ tools = <<>>
    /\ Len(domains) = 2
    /\ domains[1].enabled /\ domains[1].depends_on = <<>>
    /\ domains[2].enabled /\ domains[2].depends_on = <<domains[2].name>>

\* the three kinds of configuration source of C13
MissingSource == ~config_path.exists

UnparsableSource == config_path.exists /\ ~config_path.parses

NoDomainsKey ==
    /\ config_path.exists /\ config_path.parses
    /\ ~(/\ config_path.document.type = "dict"
         /\ "domains" \in SeqToSet(config_path.document.items))

\* C13 as claimed: the constructor, given a source that is missing, that is
\* no YAML, or that parses to a value without a top-level domains key,
\* raises ConfigurationError and no other exception.
C13_OnlyConfigurationError ==
    (last.op = "__init__" /\ (MissingSource \/ UnparsableSource \/ NoDomainsKey)) =>
        last.raised = "ConfigurationError"

\* C14 as claimed: on a loaded registry get_openai_tools succeeds, whatever
\* records the loader has accepted, and returns one entry per record of
\* tool_definitions, in the same order, entry i having type "function" and
\* the name of record i as function.name.
C14_OpenAIToolsMatch ==
    (last.op = "get_openai_tools" /\ loaded) =>
        /\ last.raised = "none"
        /\ Len(last.value) = Len(tool_definitions)
        /\ \A i \in DOMAIN tool_definitions :
              /\ last.value[i].type = "function"
              /\ last.value[i].function.name = tool_definitions[i].name

CallerOps == {"mutate_tools", "mutate_definitions"}

\* C15 as claimed: whatever a caller does to a value get_all_tools or
\* get_tool_definitions returned, entries added, removed or replaced, or a
\* returned definition record modified in place, the tools table and
\* tool_definitions, from which every later get_all_tools, get_tool,
\* list_tools, get_tool_definitions and get_openai_tools answers, stay as
\* they are.
C15_DefensiveCopies ==
    [][(last'.op \in CallerOps) => UNCHANGED <<tools, tool_definitions>>]_vars

\* the records of tool_definitions that come from the module of domain d
DefinitionsFrom(d) == SelectSeq(tool_definitions, LAMBDA tool_def : tool_def.module = d)

\* every call of load_domains is over, none with an exception
AllReturned == \A t \in Threads : threads[t].pc \in {"idle", "returned"}

\* C16 as claimed: when no call of load_domains ends with an exception,
\* however the statements of the two callers interleave, the loading
\* sequence runs at most once: import_module is called at most once for
\* each domain, and when the calls are over on a loaded registry
\* tool_definitions holds the allow-listed definitions of each enabled
\* domain exactly once.
C16_LoadsAtMostOnce ==
    (\A t \in Threads : threads[t].raised = "none") =>
        /\ \A d \in DomainKeys : Cardinality(Occurrences(imported, d)) <= 1
        /\ (loaded /\ AllReturned) =>
              \A d \in EnabledDomains :
                 DefinitionsFrom(d) =
                    merge_definitions(d, modules[d].TOOL_DEFINITIONS, <<>>)

\* every domain of the returned list comes after the other domains of the
\* list that it reaches by depends_on steps through the domains of within
OrderedAfterReached(order, within) ==
    \A d \in SeqToSet(order) :
       \A e \in (DependsTransitively(d, within) \cap SeqToSet(order)) \ {d} :
          Position(order, e) < Position(order, d)

\* C17 as claimed: in a list get_enabled_domains returns, each domain comes
\* after every domain of the list that it depends on transitively, the
\* depends_on steps going through any domains of the map, enabled or not.
C17_AfterAllTransitive ==
    Returns("get_enabled_domains") => OrderedAfterReached(last.value, DomainKeys)

\* C17: in a list get_enabled_domains returns, each domain comes after every
\* domain it depends on transitively through enabled domains, and each of
\* those is in the list; a chain of depends_on entries that passes through
\* a domain that is not enabled imposes no order.
C17_AfterEnabledTransitive ==
    Returns("get_enabled_domains") =>
        /\ OrderedAfterReached(last.value, EnabledDomains)
        /\ \A d \in SeqToSet(last.value) :
              /\ d \notin DependsTransitively(d, EnabledDomains)
              /\ DependsTransitively(d, EnabledDomains) \subseteq SeqToSet(last.value)

\* C17 witness: the call has returned on a map of three enabled domains in
\* which the first key depends on the second only and the second on the
\* third only, so that the first depends on the third transitively and is
\* returned last.
C17_Witness ==
    /\ Returns("get_enabled_domains")
    /\ EnabledDomains = DomainKeys
    /\ domains[1].depends_on = <<domains[2].name>>
    /\ domains[2].depends_on = <<domains[3].name>>
    /\ domains[3].depends_on = <<>>
    /\ last.value = <<domains[3].name, domains[2].name, domains[1].name>>

\* seq is the beginning of whole
IsPrefix(seq, whole) ==
    /\ Len(seq) <= Len(whole)
    /\ \A i \in DOMAIN seq : seq[i] = whole[i]

AllowListPosition(d, name) == Position(DomainConfig(d).tools, name)

\* the import_module call number i returned a module: the call after it, if
\* any, is not the first call of a new run of the loop, and the last call
\* of all ended a run that set loaded
ImportSucceeded(i) ==
    IF i < Len(imported) THEN imported[i + 1] # imported[1] ELSE loaded

\* the allow-listed records of the module of domain d, as its list has them
ListedInModuleOrder(d) ==
    IF modules[d].has_DEFS
    THEN SelectSeq(modules[d].TOOL_DEFINITIONS,
                   LAMBDA tool_def : DefName(tool_def) \in ConfiguredTools(d))
    ELSE <<>>

\* what the import_module calls 1..i have contributed
RECURSIVE ContributedUpTo(_)
ContributedUpTo(i) ==
    IF i = 0 THEN <<>>
    ELSE ContributedUpTo(i - 1)
         \o (IF ImportSucceeded(i) THEN ListedInModuleOrder(imported[i]) ELSE <<>>)

\* C19 as claimed: after a load that succeeded at its first run,
\* tool_definitions lists the records domain by domain in load order, and
\* the records of one domain in the order of their names in the domain's
\* tools allow-list.
C19_AllowListOrder ==
    (loaded /\ load_runs = 1) =>
        \A i, j \in DOMAIN tool_definitions :
           i < j =>
              /\ Position(imported, tool_definitions[i].module)
                    <= Position(imported, tool_definitions[j].module)
              /\ (tool_definitions[i].module = tool_definitions[j].module) =>
                    AllowListPosition(tool_definitions[i].module,
                                      tool_definitions[i].name)
                       <= AllowListPosition(tool_definitions[j].module,
                                            tool_definitions[j].name)

\* C19: tool_definitions is, import by import in the order of the
\* import_module calls, which is the load order, the allow-listed records of
\* each module that was imported, in the order and with the repetitions of
\* the module's TOOL_DEFINITIONS list; get_tool_definitions returns that
\* sequence.
C19_ModuleListOrder ==
    /\ tool_definitions = ContributedUpTo(Len(imported))
    /\ Returns("get_tool_definitions") => last.value = tool_definitions

\* C19 witness: get_tool_definitions has returned y before x on a registry
\* loaded at the first run whose only domain allow-lists x before y and
\* whose module lists the definition of y before that of x.
C19_Witness ==
    /\ loaded /\ load_runs = 1 /\ Returns("get_tool_definitions")
    /\ Len(domains) = 1
    /\ domains[1].tools = <<"x", "y">>
    /\ Names(modules[domains[1].name].TOOL_DEFINITIONS) = <<"y", "x">>
    /\ Names(last.value) = <<"y", "x">>

\* the enabled domains that allow-list name and whose module has it in TOOLS
Exporters(name) ==
    {d \in EnabledDomains :
        /\ name \in ConfiguredTools(d)
        /\ modules[d].has_TOOLS
        /\ name \in SeqToSet(modules[d].TOOLS)}

\* the callable of name in the module of the exporter that the resolved
\* order has last
LaterCallable(name) ==
    [module |-> CHOOSE d \in Exporters(name) :
                   \A e \in Exporters(name) :
                      Position(GetEnabledDomains.value, e)
                         <= Position(GetEnabledDomains.value, d),
     name |-> name]

Colliding == {name \in ToolNames : Cardinality(Exporters(name)) >= 2}

\* C20: when two enabled domains allow-list and export the same tool name,
\* a load_domains call whose imports all succeed raises nothing and loads
\* the registry, and on the loaded registry the tools table, get_tool of
\* that name and get_all_tools give the callable of the domain that comes
\* later in the resolved load order.
C20_LastWriteWins ==
    \A name \in Colliding :
       /\ (last.op = "load_domains" /\ last.ran /\ last.domain = "") =>
             (last.raised = "none" /\ loaded)
       /\ loaded =>
             /\ DictGet(tools, name) = LaterCallable(name)
             /\ (last.op = "get_tool" /\ last.arg = name) =>
                   (last.raised = "none" /\ last.value = <<LaterCallable(name)>>)
             /\ Returns("get_all_tools") =>
                   DictGet(last.value, name) = LaterCallable(name)

\* C20 witness: get_tool(x) has returned the callable of a's module on a
\* loaded registry in which a and b allow-list and export x and a, the
\* first key of the map, depends on b and so is loaded after it.
C20_Witness ==
    /\ loaded /\ Returns("get_tool") /\ last.arg = "x"
    /\ Exporters("x") = {"a", "b"}
    /\ domains[1].name = "a" /\ domains[1].depends_on = <<"b">>
    /\ GetEnabledDomains.value = <<"b", "a">>
    /\ last.value = <<[module |-> "a", name |-> "x"]>>

\* the enabled domains whose module lists an allow-listed definition of name
DefinitionExporters(name) ==
    {d \in EnabledDomains :
        \E tool_def \in SeqToSet(ListedInModuleOrder(d)) : DefName(tool_def) = name}

\* C21 as claimed: on a registry loaded at the first run, tool_definitions
\* and what get_tool_definitions returns hold no two records with the same
\* name, and a name that two loaded domains contribute a definition of is
\* held by a record of the domain that was loaded later only.
C21_DefinitionNamesUnique ==
    (loaded /\ load_runs = 1) =>
        /\ \A i, j \in DOMAIN tool_definitions :
              i # j => DefName(tool_definitions[i]) # DefName(tool_definitions[j])
        /\ Returns("get_tool_definitions") =>
              \A i, j \in DOMAIN last.value :
                 i # j => DefName(last.value[i]) # DefName(last.value[j])
        /\ \A name \in ToolNames :
              Cardinality(DefinitionExporters(name)) >= 2 =>
                 \A tool_def \in SeqToSet(tool_definitions) :
                    DefName(tool_def) = name =>
                       \A d \in DefinitionExporters(name) :
                          Position(imported, d) <= Position(imported, tool_def.module)

\* C22 as claimed: on a loaded registry every name of the tools table is the
\* name of a record of tool_definitions, whatever the modules export and
\* the allow-lists hold.
C22_EveryToolHasDefinition ==
    loaded =>
        \A name \in DictKeys(tools) :
           \E tool_def \in SeqToSet(tool_definitions) : DefName(tool_def) = name

\* C23 as claimed: when the depends_on of any descriptor of the map,
\* enabled or not, lists a name that is no key of the map,
\* get_enabled_domains raises an error and returns no list.
C23_AnyUnknownNameRaises ==
    (CalledGetEnabledDomains /\ ~OnlyKnownNames) =>
        (last.raised # "none" /\ last.value = <<>>)

\* C23: get_enabled_domains raises when the depends_on of an enabled
\* descriptor lists a name that is no key of the map; the depends_on of a
\* descriptor that is not enabled is never read, so that when every enabled
\* descriptor lists keys only and the enabled domains form no cycle the
\* call returns, whatever the other descriptors list.
C23_EnabledUnknownNameRaises ==
    CalledGetEnabledDomains =>
        /\ UnknownDependency => (last.raised # "none" /\ last.value = <<>>)
        /\ (~UnknownDependency /\ ~EnabledCycle) =>
              (last.raised = "none" /\ SeqToSet(last.value) = EnabledDomains)

\* C23 witness: the call has returned the one enabled domain of a map in
\* which that domain depends on a domain that is not enabled and lists an
\* unknown name.
C23_Witness ==
    /\ Returns("get_enabled_domains")
    /\ Cardinality(EnabledDomains) = 1
    /\ \E e \in EnabledDomains : \E d \in DomainKeys \ EnabledDomains :
          /\ DependsOnNames(e) = {d}
          /\ UnknownDomain \in DependsOnNames(d)
          /\ last.value = <<e>>

LazyReads ==
    {"get_all_tools", "get_tool", "get_tool_definitions", "get_openai_tools",
     "list_tools"}

\* what the lazy operation of the last call has to return from the tables
FromTables ==
    CASE last.op = "get_all_tools" -> tools
      [] last.op = "get_tool" -> <<DictGet(tools, last.arg)>>
      [] last.op = "get_tool_definitions" -> tool_definitions
      [] last.op = "get_openai_tools" ->
            [i \in DOMAIN tool_definitions |-> OpenAITool(tool_definitions[i])]
      [] last.op = "list_tools" -> Names(tools)

\* the tables hold what every enabled domain contributes
FullyLoaded ==
    /\ loaded
    /\ DictKeys(tools) = {name \in ToolNames : Exporters(name) # {}}
    /\ \A d \in EnabledDomains :
          \A tool_def \in SeqToSet(ListedInModuleOrder(d)) :
             tool_def \in SeqToSet(tool_definitions)

\* C24: whenever get_all_tools, get_tool, get_tool_definitions,
\* get_openai_tools or list_tools returns a value, loaded is true, the
\* tables hold the contribution of every enabled domain and the value is
\* the one the tables give; and a call that returns on a registry that was
\* not loaded has run the loading loop over the whole resolved order first.
C24_LazyOperationsLoadFirst ==
    [][(last'.op \in LazyReads /\ last'.raised = "none") =>
          /\ FullyLoaded'
          /\ last'.value = FromTables'
          /\ ~loaded =>
                /\ last'.ran
                /\ imported' = imported \o GetEnabledDomains.value]_vars

\* C24 witness: list_tools, the first call on the registry, has run the
\* loading loop over two enabled domains and returned a name.
C24_Witness ==
    /\ Returns("list_tools") /\ last.ran /\ load_runs = 1
    /\ loaded /\ Len(imported) = 2
    /\ last.value # <<>>

\* the enabled domains that list a domain that is not enabled in depends_on
OnDisabled ==
    {e \in EnabledDomains : DependsOnNames(e) \cap (DomainKeys \ EnabledDomains) # {}}

\* C25: on a map in which an enabled domain lists a domain that is not
\* enabled in depends_on, and which has no unknown name in an enabled
\* descriptor and no cycle of enabled domains, get_enabled_domains and a
\* load whose imports succeed raise nothing; the enabled domain is in the
\* list returned and is imported by the load, the domain that is not
\* enabled is in neither.
C25_DisabledDependencyIgnored ==
    (OnDisabled # {} /\ ~UnknownDependency /\ ~EnabledCycle) =>
        /\ CalledGetEnabledDomains =>
              /\ last.raised = "none"
              /\ OnDisabled \subseteq SeqToSet(last.value)
              /\ SeqToSet(last.value) \subseteq EnabledDomains
        /\ (last.op = "load_domains" /\ last.domain = "") =>
              (last.raised = "none" /\ loaded)
        /\ loaded =>
              /\ OnDisabled \subseteq SeqToSet(imported)
              /\ SeqToSet(imported) \subseteq EnabledDomains

\* C25 witness: load_domains has loaded a registry whose enabled domain
\* lists the other domain, which is not enabled, in depends_on, and has
\* imported the enabled domain only.
C25_Witness ==
    /\ last.op = "load_domains" /\ last.raised = "none" /\ last.ran
    /\ loaded
    /\ Cardinality(OnDisabled) = 1
    /\ Len(domains) = 2
    /\ \E e \in OnDisabled : imported = <<e>> /\ tools # <<>>

\* C26: DomainNotFoundError is raised by get_domain_info only; a
\* get_enabled_domains call, a load_domains call or a lazy operation on a
\* map in which an enabled descriptor lists a name that is no key of the
\* map raises DependencyError.
C26_NeverDomainNotFound ==
    /\ last.raised = "DomainNotFoundError" => last.op = "get_domain_info"
    /\ (last.op \in LazyOps \cup {"get_enabled_domains"} /\ UnknownDependency) =>
          last.raised = "DependencyError"

\* C26 witness: load_domains has raised DependencyError on a map whose
\* second key is an enabled domain that lists an unknown name, the first
\* key being enabled too.
C26_Witness ==
    /\ last.op = "load_domains" /\ last.raised = "DependencyError"
    /\ Len(domains) = 2
    /\ domains[1].enabled /\ domains[1].depends_on = <<>>
    /\ domains[2].enabled /\ domains[2].depends_on = <<UnknownDomain>>

\* C27 as claimed: on a registry loaded by a run of load_domains that came
\* after a run that failed on an import, tool_definitions and what
\* get_tool_definitions returns hold the allow-listed definitions of each
\* enabled domain exactly once.
C27_FailedLoadLeavesNoDuplicate ==
    (loaded /\ load_runs >= 2) =>
        /\ \A d \in EnabledDomains : DefinitionsFrom(d) = ListedInModuleOrder(d)
        /\ Returns("get_tool_definitions") =>
              \A d \in EnabledDomains :
                 SelectSeq(last.value, LAMBDA tool_def : tool_def.module = d)
                    = ListedInModuleOrder(d)

\* C28: a get_enabled_domains call ends, with a list or with an error, and
\* during the call the resolver passes the tests of lines 96-107 and marks
\* a domain as visiting at most once for each domain, for enabled domains
\* only; when the call returns, the domains so entered are the domains of
\* the list.
C28_EnteredAtMostOnce ==
    CalledGetEnabledDomains =>
        /\ last.raised \in {"none", "DependencyError"}
        /\ NoRepeat(GetEnabledDomains.entered)
        /\ SeqToSet(GetEnabledDomains.entered) \subseteq EnabledDomains
        /\ Len(GetEnabledDomains.entered) <= Len(domains)
        /\ last.raised = "none" =>
              SeqToSet(GetEnabledDomains.entered) = SeqToSet(last.value)

\* C28 witness: the call has raised DependencyError on a map of three
\* enabled domains in one cycle, after the resolver has entered each of the
\* three once.
C28_Witness ==
    /\ CalledGetEnabledDomains /\ last.raised = "DependencyError"
    /\ EnabledDomains = DomainKeys
    /\ \A d \in DomainKeys : Cardinality(DependsOnNames(d)) = 1
    /\ \A d \in DomainKeys : DependsTransitively(d, DomainKeys) = DomainKeys
    /\ Len(GetEnabledDomains.entered) = 3

\* the domains that reach themselves by depends_on steps through any
\* domains of the map
OnCycle == {d \in DomainKeys : d \in DependsTransitively(d, DomainKeys)}

\* C29: on a map whose depends_on cycles all pass through a domain that is
\* not enabled, and whose enabled descriptors list keys only,
\* get_enabled_domains raises no error and returns every enabled domain,
\* those of the cycles included, once; no domain that is not enabled is
\* entered by the resolver.
C29_CycleThroughDisabled ==
    (CalledGetEnabledDomains /\ OnCycle # {} /\ ~EnabledCycle /\ ~UnknownDependency) =>
        /\ last.raised = "none"
        /\ \A d \in OnCycle \cap EnabledDomains :
              Cardinality(Occurrences(last.value, d)) = 1
        /\ SeqToSet(last.value) = EnabledDomains
        /\ SeqToSet(GetEnabledDomains.entered) \cap (DomainKeys \ EnabledDomains) = {}

\* C29 witness: the call has returned the two enabled domains of a map
\* whose three domains form one cycle, the third being not enabled.
C29_Witness ==
    /\ Returns("get_enabled_domains")
    /\ OnCycle = DomainKeys
    /\ \A d \in DomainKeys : Cardinality(DependsOnNames(d)) = 1
    /\ \A d \in DomainKeys : d \notin DependsOnNames(d)
    /\ Cardinality(EnabledDomains) = 2
    /\ SeqToSet(last.value) = EnabledDomains

\* C30: when get_enabled_domains returns, the list its loop concatenated
\* before lines 143-149 holds no name twice, so the pass of lines 143-149
\* removes nothing and the list returned is that concatenation.
C30_ConcatenationHasNoRepeat ==
    (CalledGetEnabledDomains /\ last.raised = "none") =>
        /\ NoRepeat(GetEnabledDomains.order)
        /\ RemoveDuplicates(GetEnabledDomains.order) = GetEnabledDomains.order
        /\ last.value = GetEnabledDomains.order

\* C30 witness: the call has returned three domains on a map where two
\* enabled domains both depend on the third, which is enabled and so is
\* visited again after it was resolved.
C30_Witness ==
    /\ Returns("get_enabled_domains")
    /\ Len(last.value) = 3
    /\ \E c \in EnabledDomains :
          \A d \in EnabledDomains \ {c} : c \in DependsOnNames(d)

====
